---- MODULE Spec2Model ----
(***************************************************************************)
(* A model of get_aircontrol_kml.py: the script opens the KML file, pages  *)
(* through the Sonar inventory models and items, builds the geo index from *)
(* the account and network-site GeoJSON, joins devices to coordinates and  *)
(* writes one Placemark per mac.                                           *)
(*                                                                         *)
(* Python strings are TLA+ strings in the state; Chars gives the sequence  *)
(* of characters of each string the server can send, and the regular      *)
(* expression and str.upper() work on those characters.  A Python dict is  *)
(* a sequence of [k, v] entries in insertion order.                        *)
(***************************************************************************)
EXTENDS Integers, Sequences, FiniteSets, TLC

VARIABLES
    srvModels,    \* the server: pages of /inventory/models
    srvItems,     \* the server: pages of /inventory/items
    srvAccounts,  \* the server: features of /mapping/geojson/accounts
    srvSites,     \* the server: features of /mapping/geojson/network_sites
    pc,           \* the statement the script is at
    error,        \* the exception that ended the run, "none" while it runs
    kmlfile,      \* the lines written to aircontrol_locations.kml
    pages,        \* total_pages of the resource being paged
    page,         \* the loop variable of range(pages)
    models,       \* get_all_ubiquiti_models: the list of model ids
    macs,         \* get_all_active_ubiquiti_inventory_macs: item id -> device
    accounts,     \* get_all_accounts_coordinates: id -> coordinates
    coordinates,  \* get_all_coordinates: id -> coordinates
    matched,      \* match_coordinates_to_inventory: mac -> coordinates
    idx,          \* the position of the running for loop in its dict
    fetchLog,     \* history: every GET issued, with the status it got
    yielded       \* history: the records each paging loop has processed

vars == <<srvModels, srvItems, srvAccounts, srvSites, pc, error, kmlfile, pages,
          page, models, macs, accounts, coordinates, matched, idx, fetchLog,
          yielded>>

-----------------------------------------------------------------------------
(* Bounds of the model. *)
MaxPages == 2
MaxFields == 2
MaxFeatures == 2

(* Constants of the program. *)
HTTP_OK == 200
TARGET_MANUFACTURER == 1

StatusCodes == {HTTP_OK, 401, 500}

-----------------------------------------------------------------------------
(* Strings. *)

\* The field values the server sends, and the characters of each.
FieldData ==
    {"AA:BB:CC:DD:EE:FF", "aa:bb:cc:dd:ee:ff", "aa-bb-cc-dd-ee-ff",
     "11:22:33:44:55:66", " AA:BB:CC:DD:EE:FF", "AA:BB:CC:DD:EE:FF ",
     "AA:BB:CC:DD:EE:FF\n", "AA:BB:CC:DD:EE", "not-a-mac"}

Chars(d) ==
    CASE
          d = "AA:BB:CC:DD:EE:FF" -> <<"A","A",":","B","B",":","C","C",":","D","D",":","E","E",":","F","F">>
       [] d = "aa:bb:cc:dd:ee:ff" -> <<"a","a",":","b","b",":","c","c",":","d","d",":","e","e",":","f","f">>
       [] d = "aa-bb-cc-dd-ee-ff" -> <<"a","a","-","b","b","-","c","c","-","d","d","-","e","e","-","f","f">>
       [] d = "11:22:33:44:55:66" -> <<"1","1",":","2","2",":","3","3",":","4","4",":","5","5",":","6","6">>
       [] d = " AA:BB:CC:DD:EE:FF" -> <<" ","A","A",":","B","B",":","C","C",":","D","D",":","E","E",":","F","F">>
       [] d = "AA:BB:CC:DD:EE:FF " -> <<"A","A",":","B","B",":","C","C",":","D","D",":","E","E",":","F","F"," ">>
       [] d = "AA:BB:CC:DD:EE:FF\n" -> <<"A","A",":","B","B",":","C","C",":","D","D",":","E","E",":","F","F","\n">>
       [] d = "AA:BB:CC:DD:EE" -> <<"A","A",":","B","B",":","C","C",":","D","D",":","E","E">>
       [] d = "not-a-mac" -> <<"n","o","t","-","a","-","m","a","c">>

LowerCase == <<"a","b","c","d","e","f","g","h","i","j","k","l","m",
               "n","o","p","q","r","s","t","u","v","w","x","y","z">>
UpperCase == <<"A","B","C","D","E","F","G","H","I","J","K","L","M",
               "N","O","P","Q","R","S","T","U","V","W","X","Y","Z">>

\* str.upper(), character by character.
upper(s) ==
    [i \in 1..Len(s) |->
        IF \E k \in 1..26 : LowerCase[k] = s[i]
        THEN UpperCase[CHOOSE k \in 1..26 : LowerCase[k] = s[i]]
        ELSE s[i]]

HexUpper == {"0","1","2","3","4","5","6","7","8","9","A","B","C","D","E","F"}

\* [0-9A-F]{2} at position p: the position after it, 0 when it does not match.
MatchHex2(s, p) ==
    IF p >= 1 /\ p + 1 <= Len(s) /\ s[p] \in HexUpper /\ s[p + 1] \in HexUpper
    THEN p + 2 ELSE 0

\* ([0-9A-F]{2}[:-]) at position p.
MatchGroup(s, p) ==
    LET q == MatchHex2(s, p)
    IN IF q # 0 /\ q <= Len(s) /\ s[q] \in {":", "-"} THEN q + 1 ELSE 0

\* ([0-9A-F]{2}[:-]){n} at position p.
RECURSIVE MatchGroups(_, _, _)
MatchGroups(s, p, n) ==
    IF n = 0 THEN p
    ELSE LET q == MatchGroup(s, p)
         IN IF q = 0 THEN 0 ELSE MatchGroups(s, q, n - 1)

\* $ at position p: the end of the string, or just before a final newline.
MatchEnd(s, p) ==
    \/ p = Len(s) + 1
    \/ p = Len(s) /\ s[p] = "\n"

\* match("^([0-9A-F]{2}[:-]){5}([0-9A-F]{2})$", s)
match(s) ==
    LET p == MatchGroups(s, 1, 5)
        q == IF p = 0 THEN 0 ELSE MatchHex2(s, p)
    IN q # 0 /\ MatchEnd(s, q)

-----------------------------------------------------------------------------
(* Python dicts: sequences of entries [k, v] in insertion order. *)

DictHas(d, key) == \E i \in 1..Len(d) : d[i].k = key

DictGet(d, key) == d[CHOOSE i \in 1..Len(d) : d[i].k = key].v

DictKeys(d) == {d[i].k : i \in 1..Len(d)}

\* d[key] = value: a new key goes last, an old key keeps its place.
DictSet(d, key, value) ==
    IF DictHas(d, key)
    THEN [i \in 1..Len(d) |->
            IF d[i].k = key THEN [k |-> key, v |-> value] ELSE d[i]]
    ELSE Append(d, [k |-> key, v |-> value])

\* {**a, **b}
RECURSIVE DictMerge(_, _)
DictMerge(a, b) ==
    IF b = <<>> THEN a
    ELSE DictMerge(DictSet(a, Head(b).k, Head(b).v), Tail(b))

-----------------------------------------------------------------------------
(* The server. *)

\* The endpoints requested. Each begins with '/', so create_url (lines 44-54)
\* never raises URLError and gives BASE_URL followed by the endpoint.
ModelsEndpoint == "/inventory/models"
ItemsEndpoint == "/inventory/items"
AccountsEndpoint == "/mapping/geojson/accounts"
SitesEndpoint == "/mapping/geojson/network_sites"

\* ['paginator']['total_pages'] of a paged resource.
TotalPages(srv) == Len(srv)

\* ['data'] of the page a request with page=p gets.
PageData(srv, p) == IF p + 1 \in 1..Len(srv) THEN srv[p + 1] ELSE <<>>

-----------------------------------------------------------------------------
(* rest_get *)

\* The GET request as issued: params holds page unless it is None.
Request(endpoint, params, status) ==
    [endpoint |-> endpoint, params |-> params, status |-> status]

\* A variant that never raises: the status is ignored.
RaisesAPIError_Never(status) == FALSE

\* if resp.status_code != 200: raise APIError
RaisesAPIError(status) == status # HTTP_OK

-----------------------------------------------------------------------------
(* get_all_accounts_coordinates, get_all_network_sites_coordinates,        *)
(* get_all_coordinates                                                     *)

\* for point in geojson: d[point.properties.id] = point.geometry.coordinates
RECURSIVE FeaturesToDict(_, _)
FeaturesToDict(d, geojson) ==
    IF geojson = <<>> THEN d
    ELSE FeaturesToDict(DictSet(d, Head(geojson).id, Head(geojson).coordinates),
                        Tail(geojson))

\* A variant with the merge the other way round: {**network_sites, **accounts}.
MergeCoordinates_AccountsWin(accs, sites) == DictMerge(sites, accs)

\* {**accounts, **network_sites}
MergeCoordinates(accs, sites) == DictMerge(accs, sites)

-----------------------------------------------------------------------------
(* get_all_ubiquiti_models *)

\* the inner loop over one page: append the ids of the manufacturer's models
RECURSIVE ModelsOfPage(_, _)
ModelsOfPage(ms, data) ==
    IF data = <<>> THEN ms
    ELSE ModelsOfPage(
            IF Head(data).manufacturer_id = TARGET_MANUFACTURER
            THEN Append(ms, Head(data).id) ELSE ms,
            Tail(data))

\* range(pages) is exhausted after the page just processed
\* A variant that pages over range(pages - 1).
LastPage_OffByOne(p, n) == p + 1 >= n - 1

LastPage(p, n) == p + 1 >= n

-----------------------------------------------------------------------------
(* get_all_active_ubiquiti_inventory_macs *)

ExcludedAssignees ==
    {"generic_inventory_assignees", "inventory_locations", "vehicles"}

\* A variant without the test of line 129.
Eligible_AnyAssignee(item, ms) ==
    \E i \in 1..Len(ms) : ms[i] = item.inventory_model_id

\* lines 129-130: the assignee type is kept and the model is in models
Eligible(item, ms) ==
    /\ item.assignee_type \notin ExcludedAssignees
    /\ \E i \in 1..Len(ms) : ms[i] = item.inventory_model_id

\* A variant without .upper().
FieldMatches_CaseSensitive(data) == match(Chars(data))

\* line 132: match(pattern, field['data'].upper())
FieldMatches(data) == match(upper(Chars(data)))

\* A variant that stores the upper-cased value it matched.
StoredMac_Upper(data) ==
    LET u == upper(Chars(data))
    IN IF \E e \in FieldData : Chars(e) = u
       THEN CHOOSE e \in FieldData : Chars(e) = u
       ELSE data

\* line 135: 'mac': field['data']
StoredMac(data) == data

\* lines 131-136: every matching field assigns macs[item['id']]
RECURSIVE ScanFields(_, _, _)
ScanFields(d, item, fields) ==
    IF fields = <<>> THEN d
    ELSE ScanFields(
            IF FieldMatches(Head(fields).data)
            THEN DictSet(d, item.id,
                         [assignee_id |-> item.assignee_id,
                          mac |-> StoredMac(Head(fields).data)])
            ELSE d,
            item, Tail(fields))

\* lines 128-136: the inner loop over one page of items
RECURSIVE ItemsOfPage(_, _, _)
ItemsOfPage(d, data, ms) ==
    IF data = <<>> THEN d
    ELSE ItemsOfPage(
            IF Eligible(Head(data), ms)
            THEN ScanFields(d, Head(data), Head(data).fields) ELSE d,
            Tail(data), ms)

-----------------------------------------------------------------------------
(* The KML file: a sequence of lines, each the pieces write() concatenates. *)

Digits == <<"0","1","2","3","4","5","6","7","8","9">>

\* str() of a coordinate
str(n) == Digits[n + 1]

\* lines 158-161
HeaderLines ==
    << <<"<?xml version='1.0' encoding='UTF-8'?>\n">>,
       <<"<kml xmlns='http://earth.google.com/kml/2.1'>\n">>,
       <<"<Document>\n">>,
       <<"   <name>", "aircontrol_locations.kml", "</name>\n">> >>

\* lines 164-171
PlacemarkLines(mac, location) ==
    << <<"   <Placemark>\n">>,
       <<"       <name>", mac, "</name>\n">>,
       <<"       <description>", mac, "</description>\n">>,
       <<"       <Point>\n">>,
       <<"           <coordinates>", str(location[1]), ",", str(location[2]),
         "</coordinates>\n">>,
       <<"       </Point>\n">>,
       <<"   </Placemark>\n">> >>

\* lines 173-174
FooterLines == << <<"</Document>\n">>, <<"</kml>\n">> >>

-----------------------------------------------------------------------------
(* The run. *)

Running == error = "none"

\* A variant that opens the file and writes no header before the fetches.
OpenFile_NoHeader ==
    /\ Running /\ pc = "open"
    /\ kmlfile' = <<>>
    /\ pc' = "models_total"
    /\ UNCHANGED <<srvModels, srvItems, srvAccounts, srvSites, error, pages,
                   page, models, macs, accounts, coordinates, matched, idx,
                   fetchLog, yielded>>

\* lines 157-161: open the file for writing and write the header
OpenFile ==
    /\ Running /\ pc = "open"
    /\ kmlfile' = HeaderLines
    /\ pc' = "models_total"
    /\ UNCHANGED <<srvModels, srvItems, srvAccounts, srvSites, error, pages,
                   page, models, macs, accounts, coordinates, matched, idx,
                   fetchLog, yielded>>

\* line 110: pages = rest_get('/inventory/models')['paginator']['total_pages']
FetchModelsTotal ==
    /\ Running /\ pc = "models_total"
    /\ \E status \in StatusCodes :
        /\ fetchLog' = Append(fetchLog, Request(ModelsEndpoint, <<>>, status))
        /\ IF RaisesAPIError(status)
           THEN /\ error' = "APIError"
                /\ UNCHANGED <<pc, pages, page, models>>
           ELSE /\ pages' = TotalPages(srvModels)
                /\ page' = 0
                /\ models' = <<>>
                /\ pc' = IF TotalPages(srvModels) <= 0
                         THEN "items_total" ELSE "models_page"
                /\ UNCHANGED error
    /\ UNCHANGED <<srvModels, srvItems, srvAccounts, srvSites, kmlfile, macs,
                   accounts, coordinates, matched, idx, yielded>>

\* lines 113-116: one turn of the loop over range(pages)
FetchModelsPage ==
    /\ Running /\ pc = "models_page"
    /\ \E status \in StatusCodes :
        /\ fetchLog' = Append(fetchLog, Request(ModelsEndpoint, <<page>>, status))
        /\ IF RaisesAPIError(status)
           THEN /\ error' = "APIError"
                /\ UNCHANGED <<pc, page, models, yielded>>
           ELSE /\ models' = ModelsOfPage(models, PageData(srvModels, page))
                /\ yielded' = [yielded EXCEPT
                                 !.models = @ \o PageData(srvModels, page)]
                /\ page' = page + 1
                /\ pc' = IF LastPage(page, pages)
                         THEN "items_total" ELSE "models_page"
                /\ UNCHANGED error
    /\ UNCHANGED <<srvModels, srvItems, srvAccounts, srvSites, kmlfile, pages,
                   macs, accounts, coordinates, matched, idx>>

\* line 124: pages = rest_get('/inventory/items')['paginator']['total_pages']
FetchItemsTotal ==
    /\ Running /\ pc = "items_total"
    /\ \E status \in StatusCodes :
        /\ fetchLog' = Append(fetchLog, Request(ItemsEndpoint, <<>>, status))
        /\ IF RaisesAPIError(status)
           THEN /\ error' = "APIError"
                /\ UNCHANGED <<pc, pages, page, macs>>
           ELSE /\ pages' = TotalPages(srvItems)
                /\ page' = 0
                /\ macs' = <<>>
                /\ pc' = IF TotalPages(srvItems) <= 0
                         THEN "accounts" ELSE "items_page"
                /\ UNCHANGED error
    /\ UNCHANGED <<srvModels, srvItems, srvAccounts, srvSites, kmlfile, models,
                   accounts, coordinates, matched, idx, yielded>>

\* lines 127-136: one turn of the loop over range(pages)
FetchItemsPage ==
    /\ Running /\ pc = "items_page"
    /\ \E status \in StatusCodes :
        /\ fetchLog' = Append(fetchLog, Request(ItemsEndpoint, <<page>>, status))
        /\ IF RaisesAPIError(status)
           THEN /\ error' = "APIError"
                /\ UNCHANGED <<pc, page, macs, yielded>>
           ELSE /\ macs' = ItemsOfPage(macs, PageData(srvItems, page), models)
                /\ yielded' = [yielded EXCEPT
                                 !.items = @ \o PageData(srvItems, page)]
                /\ page' = page + 1
                /\ pc' = IF LastPage(page, pages)
                         THEN "accounts" ELSE "items_page"
                /\ UNCHANGED error
    /\ UNCHANGED <<srvModels, srvItems, srvAccounts, srvSites, kmlfile, pages,
                   models, accounts, coordinates, matched, idx>>

\* lines 81-88: get_all_accounts_coordinates
FetchAccounts ==
    /\ Running /\ pc = "accounts"
    /\ \E status \in StatusCodes :
        /\ fetchLog' = Append(fetchLog, Request(AccountsEndpoint, <<>>, status))
        /\ IF RaisesAPIError(status)
           THEN /\ error' = "APIError"
                /\ UNCHANGED <<pc, accounts>>
           ELSE /\ accounts' = FeaturesToDict(<<>>, srvAccounts)
                /\ pc' = "network_sites"
                /\ UNCHANGED error
    /\ UNCHANGED <<srvModels, srvItems, srvAccounts, srvSites, kmlfile, pages,
                   page, models, macs, coordinates, matched, idx, yielded>>

\* lines 93-100, 105 and 145: get_all_network_sites_coordinates, the merge
\* of get_all_coordinates, and matched = {}
FetchSites ==
    /\ Running /\ pc = "network_sites"
    /\ \E status \in StatusCodes :
        /\ fetchLog' = Append(fetchLog, Request(SitesEndpoint, <<>>, status))
        /\ IF RaisesAPIError(status)
           THEN /\ error' = "APIError"
                /\ UNCHANGED <<pc, coordinates, matched, idx>>
           ELSE /\ coordinates' =
                      MergeCoordinates(accounts, FeaturesToDict(<<>>, srvSites))
                /\ matched' = <<>>
                /\ idx' = 1
                /\ pc' = IF macs = <<>> THEN "footer" ELSE "match"
                /\ UNCHANGED error
    /\ UNCHANGED <<srvModels, srvItems, srvAccounts, srvSites, kmlfile, pages,
                   page, models, macs, accounts, yielded>>

\* A variant that skips a device whose assignee_id is not in coordinates.
MatchDevice_SkipMissing ==
    /\ Running /\ pc = "match"
    /\ matched' = IF DictHas(coordinates, macs[idx].v.assignee_id)
                  THEN DictSet(matched, macs[idx].v.mac,
                               DictGet(coordinates, macs[idx].v.assignee_id))
                  ELSE matched
    /\ idx' = IF idx = Len(macs) THEN 1 ELSE idx + 1
    /\ pc' = IF idx < Len(macs) THEN "match"
             ELSE IF matched' = <<>> THEN "footer" ELSE "write"
    /\ UNCHANGED <<srvModels, srvItems, srvAccounts, srvSites, kmlfile, pages,
                   page, models, macs, accounts, coordinates, fetchLog, yielded,
                   error>>

\* A variant that keeps the first coordinates of a mac (setdefault).
MatchDevice_FirstWins ==
    /\ Running /\ pc = "match"
    /\ IF ~DictHas(coordinates, macs[idx].v.assignee_id)
       THEN /\ error' = "KeyError"
            /\ UNCHANGED <<pc, matched, idx>>
       ELSE /\ matched' = IF DictHas(matched, macs[idx].v.mac) THEN matched
                          ELSE DictSet(matched, macs[idx].v.mac,
                                       DictGet(coordinates, macs[idx].v.assignee_id))
            /\ idx' = IF idx = Len(macs) THEN 1 ELSE idx + 1
            /\ pc' = IF idx = Len(macs) THEN "write" ELSE "match"
            /\ UNCHANGED error
    /\ UNCHANGED <<srvModels, srvItems, srvAccounts, srvSites, kmlfile, pages,
                   page, models, macs, accounts, coordinates, fetchLog, yielded>>

\* lines 147-150: one turn of the loop over macs; after the last one the
\* mapping is returned to the loop of line 163
MatchDevice ==
    /\ Running /\ pc = "match"
    /\ IF ~DictHas(coordinates, macs[idx].v.assignee_id)
       THEN /\ error' = "KeyError"
            /\ UNCHANGED <<pc, matched, idx>>
       ELSE /\ matched' = DictSet(matched, macs[idx].v.mac,
                                  DictGet(coordinates, macs[idx].v.assignee_id))
            /\ idx' = IF idx = Len(macs) THEN 1 ELSE idx + 1
            /\ pc' = IF idx = Len(macs) THEN "write" ELSE "match"
            /\ UNCHANGED error
    /\ UNCHANGED <<srvModels, srvItems, srvAccounts, srvSites, kmlfile, pages,
                   page, models, macs, accounts, coordinates, fetchLog, yielded>>

\* lines 163-171: one turn of the loop over matched.items()
WritePlacemark ==
    /\ Running /\ pc = "write"
    /\ kmlfile' = kmlfile \o PlacemarkLines(matched[idx].k, matched[idx].v)
    /\ idx' = idx + 1
    /\ pc' = IF idx = Len(matched) THEN "footer" ELSE "write"
    /\ UNCHANGED <<srvModels, srvItems, srvAccounts, srvSites, error, pages,
                   page, models, macs, accounts, coordinates, matched, fetchLog,
                   yielded>>

\* lines 173-174
WriteFooter ==
    /\ Running /\ pc = "footer"
    /\ kmlfile' = kmlfile \o FooterLines
    /\ pc' = "done"
    /\ UNCHANGED <<srvModels, srvItems, srvAccounts, srvSites, error, pages,
                   page, models, macs, accounts, coordinates, matched, idx,
                   fetchLog, yielded>>

Next ==
    \/ OpenFile
    \/ FetchModelsTotal
    \/ FetchModelsPage
    \/ FetchItemsTotal
    \/ FetchItemsPage
    \/ FetchAccounts
    \/ FetchSites
    \/ MatchDevice
    \/ WritePlacemark
    \/ WriteFooter

-----------------------------------------------------------------------------
(* What the server holds. *)

SeqsUpTo(S, n) == UNION {[1..k -> S] : k \in 0..n}

Model(id, manufacturer) == [id |-> id, manufacturer_id |-> manufacturer]

Item(id, type, assignee, model, fields) ==
    [id |-> id, assignee_type |-> type, assignee_id |-> assignee,
     inventory_model_id |-> model,
     fields |-> [i \in 1..Len(fields) |-> [data |-> fields[i]]]]

Feature(id, lon, lat) == [id |-> id, coordinates |-> <<lon, lat>>]

AssigneeTypes == {"accounts"} \cup ExcludedAssignees

\* The state before line 157, with the server's content drawn from the sets.
InitWith(modelLists, itemLists, accountLists, siteLists) ==
    /\ srvModels \in modelLists
    /\ srvItems \in itemLists
    /\ srvAccounts \in accountLists
    /\ srvSites \in siteLists
    /\ pc = "open"
    /\ error = "none"
    /\ kmlfile = <<>>
    /\ pages = 0
    /\ page = 0
    /\ models = <<>>
    /\ macs = <<>>
    /\ accounts = <<>>
    /\ coordinates = <<>>
    /\ matched = <<>>
    /\ idx = 1
    /\ fetchLog = <<>>
    /\ yielded = [models |-> <<>>, items |-> <<>>]

\* Paging: any number of pages of either resource, of one or two records.
PagingModelPages ==
    {<<Model(1, 1)>>, <<Model(2, 2), Model(3, 1)>>}

PagingItemPages ==
    {<<Item(10, "accounts", 100, 1, <<"AA:BB:CC:DD:EE:FF">>)>>,
     <<Item(11, "accounts", 101, 3, <<"11:22:33:44:55:66">>),
       Item(12, "vehicles", 100, 1, <<"aa:bb:cc:dd:ee:ff">>)>>}

Init ==
    InitWith(SeqsUpTo(PagingModelPages, MaxPages),
             SeqsUpTo(PagingItemPages, MaxPages),
             {<<Feature(100, 1, 2)>>},
             {<<>>, <<Feature(101, 3, 4)>>})

Spec == Init /\ [][Next]_vars

\* Filtering: one page of items; the first item is any item, of at most
\* MaxFields fields, the second, when there is one, is a device of its own.
FilterItems ==
    {Item(10, type, 100, model, fields) :
        type \in AssigneeTypes, model \in {1, 2},
        fields \in SeqsUpTo(FieldData, MaxFields)}

InitFilter ==
    InitWith({<< <<Model(1, 1), Model(2, 2)>> >>},
             {<< <<i>> >> : i \in FilterItems}
                \cup {<< <<i, Item(11, "accounts", 101, 1, <<"aa:bb:cc:dd:ee:ff">>)>> >> :
                        i \in FilterItems},
             {<<Feature(100, 1, 2), Feature(101, 3, 4)>>},
             {<<>>})

SpecFilter == InitFilter /\ [][Next]_vars

\* Joining: two devices, and any accounts and sites of at most MaxFeatures
\* features each.
GeoFeatures == {Feature(id, c[1], c[2]) : id \in {100, 101}, c \in {<<1, 2>>, <<3, 4>>}}

GeoItems ==
    {<<Item(10, "accounts", 100, 1, <<"AA:BB:CC:DD:EE:FF">>),
       Item(11, "accounts", a, 1, <<m>>)>> :
        a \in {100, 101}, m \in {"AA:BB:CC:DD:EE:FF", "aa:bb:cc:dd:ee:ff"}}

InitGeo ==
    InitWith({<< <<Model(1, 1)>> >>},
             {<<p>> : p \in GeoItems},
             SeqsUpTo(GeoFeatures, MaxFeatures),
             SeqsUpTo(GeoFeatures, MaxFeatures))

SpecGeo == InitGeo /\ [][Next]_vars

-----------------------------------------------------------------------------
(* Vocabulary of the properties. *)

PcOrder == <<"open", "models_total", "models_page", "items_total", "items_page",
             "accounts", "network_sites", "match", "write", "footer", "done">>

Rank(p) == CHOOSE i \in 1..Len(PcOrder) : PcOrder[i] = p

\* The paging loop of a resource has run to its end.
ModelsPaged == Rank(pc) >= Rank("items_total")
ItemsPaged == Rank(pc) >= Rank("accounts")

\* get_all_coordinates has returned.
CoordinatesBuilt == Rank(pc) >= Rank("match")

\* match_coordinates_to_inventory has returned its mapping to line 163.
Returned == Rank(pc) >= Rank("write")

RECURSIVE Concat(_)
Concat(ps) == IF ps = <<>> THEN <<>> ELSE Head(ps) \o Concat(Tail(ps))

\* The params of the requests made to an endpoint, in the order made.
ParamsOf(endpoint) ==
    LET reqs == SelectSeq(fetchLog, LAMBDA r : r.endpoint = endpoint)
    IN [i \in 1..Len(reqs) |-> reqs[i].params]

\* page=0, page=1, ..., page=n-1
PageRequests(n) == [i \in 1..n |-> <<i - 1>>]

\* Six groups of two upper-case hex digits with a ':' or '-' after each of
\* the first five, and nothing else.
StrictMac48(s) ==
    /\ Len(s) = 17
    /\ \A i \in 1..17 :
         IF i % 3 = 0 THEN s[i] \in {":", "-"} ELSE s[i] \in HexUpper

Whitespace == {" ", "\n", "\t", "\r"}

RECURSIVE LStrip(_)
LStrip(s) ==
    IF s # <<>> /\ Head(s) \in Whitespace THEN LStrip(Tail(s)) ELSE s

RECURSIVE RStrip(_)
RStrip(s) ==
    IF s # <<>> /\ s[Len(s)] \in Whitespace
    THEN RStrip(SubSeq(s, 1, Len(s) - 1)) ELSE s

Trim(s) == RStrip(LStrip(s))

\* What the claims call matching: on the trimmed, upper-cased value ...
MatchesTrimmed(data) == StrictMac48(upper(Trim(Chars(data))))

\* ... and on the upper-cased value as it is, which the pattern's $ lets end
\* in one newline.
MatchesUntrimmed(data) ==
    LET s == upper(Chars(data))
    IN \/ StrictMac48(s)
       \/ Len(s) = 18 /\ s[18] = "\n" /\ StrictMac48(SubSeq(s, 1, 17))

\* The item of a page the loop has processed that has this id.
Processed(id) == {yielded.items[i] : i \in {j \in 1..Len(yielded.items) :
                                              yielded.items[j].id = id}}

TargetModelIds ==
    {m.id : m \in {Concat(srvModels)[i] : i \in
                     {j \in 1..Len(Concat(srvModels)) :
                        Concat(srvModels)[j].manufacturer_id = 1}}}

OwnerItem(item) ==
    /\ item.assignee_type \notin
         {"generic_inventory_assignees", "inventory_locations", "vehicles"}
    /\ item.inventory_model_id \in TargetModelIds

FieldsOf(item) == {item.fields[i].data : i \in 1..Len(item.fields)}

-----------------------------------------------------------------------------
(* C1 *)

\* C1, as amended: once the paging loop of a resource (models, items) has
\* run to its end, it has processed the records of pages 0..N-1 concatenated
\* in page order, N being the total_pages reported, and the requests made to
\* the resource are one request without a page, which reads total_pages,
\* followed by page=0, ..., page=N-1, each once: N+1 requests.
C1_PagesInOrderAfterProbe ==
    /\ ModelsPaged =>
         /\ yielded.models = Concat(srvModels)
         /\ ParamsOf(ModelsEndpoint) = <<<<>>>> \o PageRequests(Len(srvModels))
    /\ ItemsPaged =>
         /\ yielded.items = Concat(srvItems)
         /\ ParamsOf(ItemsEndpoint) = <<<<>>>> \o PageRequests(Len(srvItems))

\* C1, witness: a run that paged two pages of models and two of items.
C1_Witness ==
    /\ pc = "done"
    /\ Len(srvModels) = 2 /\ Len(srvItems) = 2
    /\ Len(yielded.items) >= 3

\* C1, as claimed: the records of pages 0..N-1 are processed in page order
\* and the only requests made to the resource are the N page requests, each
\* once, with no extra fetch.
C1_NoExtraFetch ==
    /\ ModelsPaged =>
         /\ yielded.models = Concat(srvModels)
         /\ ParamsOf(ModelsEndpoint) = PageRequests(Len(srvModels))
    /\ ItemsPaged =>
         /\ yielded.items = Concat(srvItems)
         /\ ParamsOf(ItemsEndpoint) = PageRequests(Len(srvItems))

-----------------------------------------------------------------------------
(* C2 *)

\* The data of the first field of the item that matches the pattern.
FirstMatch(item) ==
    item.fields[CHOOSE i \in 1..Len(item.fields) :
                  /\ MatchesUntrimmed(item.fields[i].data)
                  /\ \A j \in 1..(i - 1) : ~MatchesUntrimmed(item.fields[j].data)].data

\* C2, as claimed: the mac stored for an item is the data of its first
\* matching field; a later matching field never replaces it.
C2_FirstMatchWins ==
    \A i \in 1..Len(macs) :
        \A item \in Processed(macs[i].k) : macs[i].v.mac = FirstMatch(item)

-----------------------------------------------------------------------------
(* C3 *)

\* C3, as amended: a device whose assignee_id has no entry in the geo index
\* makes the lookup of line 148 raise KeyError: the run ends at that device,
\* after the devices before it were matched, with no mapping returned and
\* nothing but the header in the file. The mapping is returned only when
\* every device's assignee_id is in the geo index, and then every device's
\* mac is in it.
C3_MissingKeyAborts ==
    /\ error = "KeyError" =>
         /\ pc = "match"
         /\ ~DictHas(coordinates, macs[idx].v.assignee_id)
         /\ \A j \in 1..(idx - 1) :
              /\ DictHas(coordinates, macs[j].v.assignee_id)
              /\ DictHas(matched, macs[j].v.mac)
         /\ kmlfile = HeaderLines
    /\ Returned =>
         \A i \in 1..Len(macs) :
            /\ DictHas(coordinates, macs[i].v.assignee_id)
            /\ DictHas(matched, macs[i].v.mac)

\* C3, witness: the second device has no entry, the first was matched.
C3_Witness ==
    /\ error = "KeyError"
    /\ idx = 2
    /\ DictHas(coordinates, macs[1].v.assignee_id)

\* C3, as claimed: a device whose assignee_id has no entry in the geo index
\* raises no error, and the run goes on to return the devices that have one.
C3_SilentlyDropped ==
    /\ error # "KeyError"
    /\ Returned =>
         \A i \in 1..Len(macs) :
            DictHas(coordinates, macs[i].v.assignee_id)
                => DictHas(matched, macs[i].v.mac)

-----------------------------------------------------------------------------
(* C4 *)

Ids(features) == {features[i].id : i \in 1..Len(features)}

\* The coordinates of the last feature of the collection with this id.
LastOf(features, id) ==
    features[CHOOSE i \in 1..Len(features) :
               /\ features[i].id = id
               /\ \A j \in (i + 1)..Len(features) : features[j].id # id].coordinates

\* C4: the keys of the mapping get_all_coordinates returns are the account
\* ids and the network-site ids; an id of both collections has the site's
\* coordinates, any other id those of its own collection; the mapping has
\* one entry per key and at most as many entries as the two collections
\* have features.
C4_SitesOverwriteAccounts ==
    CoordinatesBuilt =>
        /\ DictKeys(coordinates) = Ids(srvAccounts) \cup Ids(srvSites)
        /\ \A id \in DictKeys(coordinates) :
              DictGet(coordinates, id) =
                 IF id \in Ids(srvSites) THEN LastOf(srvSites, id)
                 ELSE LastOf(srvAccounts, id)
        /\ Cardinality(DictKeys(coordinates)) = Len(coordinates)
        /\ Len(coordinates) <= Len(srvAccounts) + Len(srvSites)

\* C4, witness: an id is an account and a site, with different coordinates,
\* and another id is an account only.
C4_Witness ==
    /\ CoordinatesBuilt
    /\ \E id \in Ids(srvAccounts) \cap Ids(srvSites) :
          LastOf(srvAccounts, id) # LastOf(srvSites, id)
    /\ Ids(srvAccounts) \ Ids(srvSites) # {}

-----------------------------------------------------------------------------
(* C5 *)

\* C5: every key of the device filter's result is the id of a processed item
\* whose assignee_type is none of the three excluded ones, whose model is a
\* model of manufacturer 1 and one of whose fields matches the pattern; an
\* item of assignee_type "vehicles", and an item none of whose fields
\* matches, is not in the result.
C5_OnlyEligibleItems ==
    /\ \A i \in 1..Len(macs) :
          \E item \in Processed(macs[i].k) :
              /\ OwnerItem(item)
              /\ \E d \in FieldsOf(item) : MatchesUntrimmed(d)
    /\ \A j \in 1..Len(yielded.items) :
          (\/ yielded.items[j].assignee_type = "vehicles"
           \/ \A d \in FieldsOf(yielded.items[j]) : ~MatchesUntrimmed(d))
             => yielded.items[j].id \notin DictKeys(macs)

\* C5, witness: a vehicle of a target model with a MAC field was processed
\* and is not in the result, which holds another item.
C5_Witness ==
    /\ ItemsPaged
    /\ \E item \in Processed(10) :
          /\ item.assignee_type = "vehicles"
          /\ item.inventory_model_id \in TargetModelIds
          /\ "AA:BB:CC:DD:EE:FF" \in FieldsOf(item)
    /\ DictKeys(macs) = {11}

-----------------------------------------------------------------------------
(* C6 *)

\* C6: a request that gets a status other than 200 is the last request the
\* run makes (it is not made again and no request follows it), whichever
\* request it is, and the run has ended with APIError; a run that ended with
\* APIError has returned no mapping.
C6_FailedFetchAborts ==
    /\ \A i \in 1..Len(fetchLog) :
          fetchLog[i].status # 200 => (i = Len(fetchLog) /\ error = "APIError")
    /\ error = "APIError" =>
          /\ fetchLog # <<>> /\ fetchLog[Len(fetchLog)].status # 200
          /\ ~Returned
          /\ matched = <<>>

\* C6, witness: the request for the second page of items fails after the
\* first page gave a device.
C6_Witness ==
    /\ error = "APIError"
    /\ fetchLog[Len(fetchLog)].endpoint = ItemsEndpoint
    /\ fetchLog[Len(fetchLog)].params = <<1>>
    /\ macs # <<>>

-----------------------------------------------------------------------------
(* C7 *)

\* C7: the mapping match_coordinates_to_inventory returns has the devices'
\* macs as keys, one entry per mac; the coordinates of a mac are those of the
\* last device, in the order of the device records, that has this mac.
C7_LaterDeviceOverwrites ==
    Returned =>
        /\ DictKeys(matched) = {macs[i].v.mac : i \in 1..Len(macs)}
        /\ Cardinality(DictKeys(matched)) = Len(matched)
        /\ \A i \in 1..Len(macs) :
              (\A j \in (i + 1)..Len(macs) : macs[j].v.mac # macs[i].v.mac)
                 => DictGet(matched, macs[i].v.mac) =
                       DictGet(coordinates, macs[i].v.assignee_id)

\* C7, witness: two devices of different coordinates share a mac, and the
\* run ended without an error.
C7_Witness ==
    /\ pc = "done" /\ error = "none"
    /\ Len(macs) = 2
    /\ macs[1].v.mac = macs[2].v.mac
    /\ DictGet(coordinates, macs[1].v.assignee_id)
          # DictGet(coordinates, macs[2].v.assignee_id)
    /\ Len(matched) = 1

-----------------------------------------------------------------------------
(* C8 *)

\* C8, as amended: an eligible item is kept exactly when one of its fields,
\* upper-cased and not trimmed, is six groups of two hex digits separated by
\* ':' or '-', followed by nothing or by one newline. "AA:BB:CC:DD:EE:FF"
\* and "aa-bb-cc-dd-ee-ff" are accepted; the same values with leading
\* whitespace or a trailing space, and "AA:BB:CC:DD:EE", are rejected.
C8_MatchesUntrimmedUpper ==
    \A j \in 1..Len(yielded.items) :
        OwnerItem(yielded.items[j]) =>
            (yielded.items[j].id \in DictKeys(macs)
                <=> \E d \in FieldsOf(yielded.items[j]) : MatchesUntrimmed(d))

\* C8, witness: an eligible item whose fields are a MAC with a leading space
\* and a MAC with a trailing space was processed and not kept.
C8_Witness ==
    /\ ItemsPaged
    /\ \E item \in Processed(10) :
          /\ OwnerItem(item)
          /\ FieldsOf(item) = {" AA:BB:CC:DD:EE:FF", "AA:BB:CC:DD:EE:FF "}
    /\ 10 \notin DictKeys(macs)

\* C8, as claimed: an eligible item is kept exactly when one of its fields,
\* trimmed and upper-cased, matches the strict MAC-48 pattern.
C8_MatchesTrimmedUpper ==
    \A j \in 1..Len(yielded.items) :
        OwnerItem(yielded.items[j]) =>
            (yielded.items[j].id \in DictKeys(macs)
                <=> \E d \in FieldsOf(yielded.items[j]) : MatchesTrimmed(d))

-----------------------------------------------------------------------------
(* C9 *)

\* C9: the mac stored for a kept item is the data of one of its fields as
\* the server sent it, and the keys of the returned mapping are the stored
\* macs; two devices whose macs differ only in letter case are two entries.
C9_OriginalDataKept ==
    /\ \A i \in 1..Len(macs) :
          \E item \in Processed(macs[i].k) : macs[i].v.mac \in FieldsOf(item)
    /\ Returned =>
          /\ DictKeys(matched) = {macs[i].v.mac : i \in 1..Len(macs)}
          /\ \A i, j \in 1..Len(macs) :
                (/\ macs[i].v.mac # macs[j].v.mac
                 /\ upper(Chars(macs[i].v.mac)) = upper(Chars(macs[j].v.mac)))
                   => /\ DictHas(matched, macs[i].v.mac)
                      /\ DictHas(matched, macs[j].v.mac)
                      /\ Len(matched) >= 2

\* C9, witness: the run ended with "AA:BB:CC:DD:EE:FF" and
\* "aa:bb:cc:dd:ee:ff" as two keys of the mapping.
C9_Witness ==
    /\ pc = "done"
    /\ DictKeys(matched) = {"AA:BB:CC:DD:EE:FF", "aa:bb:cc:dd:ee:ff"}
    /\ Len(kmlfile) = Len(HeaderLines) + 14 + Len(FooterLines)

-----------------------------------------------------------------------------
(* C10 *)

\* C10: when the first request is made the file holds its header; a line
\* after the header is in the file only when every request has succeeded and
\* the mapping has been returned; a run that ended with an error, of a
\* request or of a missing key, leaves the header alone in the file.
C10_HeaderBeforeFetchPlacemarksAfter ==
    /\ fetchLog # <<>> =>
          /\ Len(kmlfile) >= Len(HeaderLines)
          /\ SubSeq(kmlfile, 1, Len(HeaderLines)) = HeaderLines
    /\ Len(kmlfile) > Len(HeaderLines) =>
          /\ Returned /\ error = "none"
          /\ \A i \in 1..Len(fetchLog) : fetchLog[i].status = 200
          /\ fetchLog[Len(fetchLog)].endpoint = SitesEndpoint
    /\ error # "none" => kmlfile = HeaderLines

\* C10, witness: a run ended by a missing key after all its requests.
C10_Witness ==
    /\ error = "KeyError"
    /\ kmlfile = HeaderLines
    /\ fetchLog[Len(fetchLog)].endpoint = SitesEndpoint

====
